---- MODULE Spec2Model ----
(***************************************************************************)
(* wasm-lang-inference (src/main.rs): reads every file of ./wasm, parses   *)
(* its import and export sections, infers the source language from the     *)
(* symbol names by an ordered chain of heuristics, prints one line per     *)
(* file, then the per-language counts and the percentage of unclassified   *)
(* modules.                                                                *)
(*                                                                         *)
(* A file is modelled by the payload stream wasmparser's parse_all yields  *)
(* for it: a sequence of payloads [kind, items], where an "Err" payload is *)
(* a framing error (bad magic/version, truncated section) and an item with *)
(* ok = FALSE is an import/export entry the section reader cannot decode.  *)
(* Symbol names are TLA+ strings; substring tests are computed on them.    *)
(***************************************************************************)
EXTENDS Integers, Sequences, FiniteSets, TLC

VARIABLES
    dir,      \* the files of ./wasm, in read_dir order: a sequence of payload streams
    idx,      \* position of the for loop of main: the next file to read
    langs,    \* main's `langs` vector
    out,      \* the per-file lines printed so far: [lang, file]
    counts,   \* main's `counts` HashMap, once built: Language -> count
    summary,  \* the "N% unclassified" line: <<>> until printed, then <<N>>
    pc,       \* "loop" | "summary" | "done" | "panicked"
    panic     \* which unwrap aborted the process: "none" | "Result::unwrap" | "Option::unwrap"

vars == <<dir, idx, langs, out, counts, summary, pc, panic>>

(***************************************************************************)
(* Bounds of the model.                                                    *)
(***************************************************************************)
\* most files in ./wasm in a batch run
MaxFiles == 4
\* most entries of a module's import and export tables together
MaxSymbols == 2

(***************************************************************************)
(* Helpers on sequences and strings.                                       *)
(***************************************************************************)
Range(s) == {s[k] : k \in DOMAIN s}

SeqsUpTo(S, n) == UNION {[1..k -> S] : k \in 0..n}

\* str::contains(pat) for a non-empty pattern
contains(s, pat) ==
    \E k \in 1..(Len(s) - Len(pat) + 1) : SubSeq(s, k, k + Len(pat) - 1) = pat

(***************************************************************************)
(* enum Language                                                           *)
(***************************************************************************)
Language ==
    {"Rust", "Emscripten", "AssemblyScript", "Blazor", "Unknown",
     "UnknownCompressedOne", "UnknownCompressedTwo", "Go"}

(***************************************************************************)
(* The input files.                                                        *)
(***************************************************************************)
Payload(kind, items) == [kind |-> kind, items |-> items]

ImportItem(module, name) == [ok |-> TRUE, module |-> module, name |-> name]
ExportItem(name) == [ok |-> TRUE, name |-> name]
BadImportItem == [ok |-> FALSE, module |-> "", name |-> ""]
BadExportItem == [ok |-> FALSE, name |-> ""]

\* import entries the heuristics look for, and one they do not
ImportPool ==
    { ImportItem("env", "emscripten_memcpy_big"),
      ImportItem("env", "mono_wasm_invoke"),
      ImportItem("wbg", "x"),
      ImportItem("wbindgen", "x"),
      ImportItem("x", "__wbindgen_throw"),
      ImportItem("x", "__wbg_log"),
      ImportItem("go", "x"),
      ImportItem("x", "gopher"),
      ImportItem("env", "abort"),
      ImportItem("a", "a"),
      ImportItem("a", "b"),
      ImportItem("env", "a"),
      ImportItem("env", "b"),
      ImportItem("env", "__memory_base"),
      ImportItem("x", "y") }

ExportPool ==
    { ExportItem("__wbindgen_malloc"),
      ExportItem("go_scheduler"),
      ExportItem("hyphenate"),
      ExportItem("malloc"),
      ExportItem("_malloc"),
      ExportItem("main") }

Faults == {"none", "header", "truncated", "import_entry", "export_entry"}

\* The payload stream of a file whose import section holds imps and whose
\* export section holds exps, the import section first iff importsFirst.
MkFile(importsFirst, imps, exps, fault) ==
    LET impItems == imps \o (IF fault = "import_entry" THEN <<BadImportItem>> ELSE <<>>)
        expItems == exps \o (IF fault = "export_entry" THEN <<BadExportItem>> ELSE <<>>)
        impSec == IF impItems = <<>> THEN <<>> ELSE <<Payload("ImportSection", impItems)>>
        expSec == IF expItems = <<>> THEN <<>> ELSE <<Payload("ExportSection", expItems)>>
        secs == IF importsFirst THEN impSec \o expSec ELSE expSec \o impSec
    IN  IF fault = "header"
        THEN <<Payload("Err", <<>>)>>
        ELSE <<Payload("Version", <<>>)>> \o secs
             \o <<Payload("CodeSectionStart", <<>>)>>
             \o (IF fault = "truncated" THEN <<Payload("Err", <<>>)>>
                                        ELSE <<Payload("End", <<>>)>>)

\* how many imports and exports a file may hold: at most MaxSymbols together
TableSizes ==
    {n \in (0..MaxSymbols) \X (0..MaxSymbols) : n[1] + n[2] <= MaxSymbols}

\* a small collection of files for batch runs
SampleFiles ==
    { MkFile(TRUE, <<>>, <<>>, "none"),
      MkFile(TRUE, <<ImportItem("env", "emscripten_memcpy_big")>>, <<>>, "none"),
      MkFile(TRUE, <<ImportItem("wbg", "x")>>, <<ExportItem("main")>>, "none"),
      MkFile(TRUE, <<ImportItem("x", "y")>>, <<>>, "none"),
      MkFile(TRUE, <<>>, <<ExportItem("malloc")>>, "none"),
      MkFile(TRUE, <<>>, <<>>, "header"),
      MkFile(TRUE, <<ImportItem("a", "a")>>, <<>>, "import_entry"),
      MkFile(TRUE, <<ImportItem("x", "gopher")>>, <<>>, "truncated") }

(***************************************************************************)
(* struct WasmModule and its two queries.  A closure is modelled by the    *)
(* function it computes on the entries of the table.                       *)
(***************************************************************************)
WasmModule(imports, exports) ==
    [panicked |-> FALSE, imports |-> imports, exports |-> exports]

\* parse_wasm does not return: an unwrap of an Err panicked
Unwound == [panicked |-> TRUE, imports |-> <<>>, exports |-> <<>>]

\* a variant that looks at the first import only
any_imports_match_first(module, f) ==
    module.imports # <<>> /\ f[module.imports[1]]

any_imports_match(module, f) ==
    \E k \in 1..Len(module.imports) : f[module.imports[k]]

any_exports_match(module, f) ==
    \E k \in 1..Len(module.exports) : f[module.exports[k]]

(***************************************************************************)
(* parse_wasm                                                              *)
(***************************************************************************)
RECURSIVE push_all(_, _)
\* `for import in s { imports.push(import.unwrap()); }`
push_all(items, vec) ==
    IF items = <<>> THEN [panicked |-> FALSE, vec |-> vec]
    ELSE IF ~Head(items).ok THEN [panicked |-> TRUE, vec |-> vec]
    ELSE push_all(Tail(items), Append(vec, Head(items)))

RECURSIVE parse_all(_, _, _)
\* `for payload in Parser::new(0).parse_all(buf) { match payload.unwrap() ... }`
parse_all(payloads, imports, exports) ==
    IF payloads = <<>> THEN WasmModule(imports, exports)
    ELSE LET payload == Head(payloads) IN
         IF payload.kind = "Err" THEN Unwound
         ELSE IF payload.kind = "ImportSection"
         THEN LET r == push_all(payload.items, imports) IN
              IF r.panicked THEN Unwound
              ELSE parse_all(Tail(payloads), r.vec, exports)
         ELSE IF payload.kind = "ExportSection"
         THEN LET r == push_all(payload.items, exports) IN
              IF r.panicked THEN Unwound
              ELSE parse_all(Tail(payloads), imports, r.vec)
         ELSE parse_all(Tail(payloads), imports, exports)

\* variants of the parser: one that drops what it cannot decode and returns
\* the entries read so far, one that insists on an import section
push_ok(items, vec) ==
    IF \E k \in DOMAIN items : ~items[k].ok
    THEN vec \o SubSeq(items, 1,
                 (CHOOSE k \in DOMAIN items :
                     ~items[k].ok /\ \A j \in 1..(k - 1) : items[j].ok) - 1)
    ELSE vec \o items

RECURSIVE parse_all_lenient(_, _, _)
parse_all_lenient(payloads, imports, exports) ==
    IF payloads = <<>> THEN WasmModule(imports, exports)
    ELSE LET payload == Head(payloads) IN
         IF payload.kind = "Err" THEN WasmModule(imports, exports)
         ELSE IF payload.kind = "ImportSection"
         THEN parse_all_lenient(Tail(payloads), push_ok(payload.items, imports), exports)
         ELSE IF payload.kind = "ExportSection"
         THEN parse_all_lenient(Tail(payloads), imports, push_ok(payload.items, exports))
         ELSE parse_all_lenient(Tail(payloads), imports, exports)

parse_wasm_lenient(buf) == parse_all_lenient(buf, <<>>, <<>>)

parse_wasm_needs_imports(buf) ==
    IF \E k \in DOMAIN buf : buf[k].kind = "ImportSection"
    THEN parse_all(buf, <<>>, <<>>)
    ELSE Unwound

parse_wasm(buf) == parse_all(buf, <<>>, <<>>)

(***************************************************************************)
(* The heuristics.                                                         *)
(***************************************************************************)
is_emscripten(module) ==
    any_imports_match(module,
        [i \in Range(module.imports) |-> contains(i.name, "emscripten")])

\* a variant in which one import of a pair is enough
is_likely_emscripten_either(module) ==
    \/ any_imports_match(module,
              [i \in Range(module.imports) |-> i.module = "a" /\ i.name = "a"])
    \/ any_imports_match(module,
              [i \in Range(module.imports) |-> i.module = "a" /\ i.name = "b"])
    \/ any_imports_match(module,
              [i \in Range(module.imports) |-> i.module = "env" /\ i.name = "a"])
    \/ any_imports_match(module,
              [i \in Range(module.imports) |-> i.module = "env" /\ i.name = "b"])
    \/ any_exports_match(module,
              [e \in Range(module.exports) |-> e.name = "malloc"])
    \/ any_imports_match(module,
              [i \in Range(module.imports) |->
                  i.module = "env" /\ i.name = "__memory_base"])

is_likely_emscripten(module) ==
    \/ /\ any_imports_match(module,
              [i \in Range(module.imports) |-> i.module = "a" /\ i.name = "a"])
       /\ any_imports_match(module,
              [i \in Range(module.imports) |-> i.module = "a" /\ i.name = "b"])
    \/ /\ any_imports_match(module,
              [i \in Range(module.imports) |-> i.module = "env" /\ i.name = "a"])
       /\ any_imports_match(module,
              [i \in Range(module.imports) |-> i.module = "env" /\ i.name = "b"])
    \/ any_exports_match(module,
              [e \in Range(module.exports) |-> e.name = "malloc"])
    \/ any_imports_match(module,
              [i \in Range(module.imports) |->
                  i.module = "env" /\ i.name = "__memory_base"])

is_rust(module) ==
    \/ any_imports_match(module,
              [i \in Range(module.imports) |->
                  \/ contains(i.name, "wbindgen")
                  \/ contains(i.name, "wbg")
                  \/ i.module = "wbg"
                  \/ i.module = "wbindgen"])
    \/ any_exports_match(module,
              [e \in Range(module.exports) |-> contains(e.name, "wbindgen")])

is_blazor(module) ==
    any_imports_match(module,
        [i \in Range(module.imports) |-> contains(i.name, "mono")])

is_go(module) ==
    \/ any_imports_match(module,
              [i \in Range(module.imports) |-> i.module = "go"])
    \/ any_imports_match(module,
              [i \in Range(module.imports) |-> contains(i.name, "go")])
    \/ any_imports_match(module,
              [e \in Range(module.imports) |-> contains(e.name, "go_scheduler")])

is_assemblyscript(module) ==
    \/ any_imports_match(module,
              [i \in Range(module.imports) |-> i.module = "env" /\ i.name = "abort"])
    \/ any_exports_match(module,
              [e \in Range(module.exports) |-> e.name = "hyphenate"])

(***************************************************************************)
(* infer_language.  Panicked stands for the call not returning.            *)
(***************************************************************************)
Panicked == "panicked"

\* a variant that tries the Rust rule before the Emscripten one
infer_language_rust_first(buf) ==
    LET module == parse_wasm(buf) IN
    IF module.panicked THEN Panicked
    ELSE IF is_rust(module) THEN "Rust"
    ELSE IF is_emscripten(module) THEN "Emscripten"
    ELSE IF is_blazor(module) THEN "Blazor"
    ELSE IF is_go(module) THEN "Go"
    ELSE IF is_assemblyscript(module) THEN "AssemblyScript"
    ELSE IF is_likely_emscripten(module) THEN "Emscripten"
    ELSE "Unknown"

infer_language(buf) ==
    LET module == parse_wasm(buf) IN
    IF module.panicked THEN Panicked
    ELSE IF is_emscripten(module) THEN "Emscripten"
    ELSE IF is_blazor(module) THEN "Blazor"
    ELSE IF is_rust(module) THEN "Rust"
    ELSE IF is_go(module) THEN "Go"
    ELSE IF is_assemblyscript(module) THEN "AssemblyScript"
    ELSE IF is_likely_emscripten(module) THEN "Emscripten"
    ELSE "Unknown"

(***************************************************************************)
(* main                                                                    *)
(***************************************************************************)
EmptyMap == [l \in {} |-> 0]

RECURSIVE count_langs_insert_only(_)
\* a variant without the and_modify: `counts.entry(val).or_insert(1)`
count_langs_insert_only(vec) ==
    IF vec = <<>> THEN EmptyMap
    ELSE LET c == count_langs_insert_only(SubSeq(vec, 1, Len(vec) - 1))
             val == vec[Len(vec)]
         IN  IF val \in DOMAIN c THEN c ELSE c @@ (val :> 1)

RECURSIVE count_langs(_)
\* `langs.iter().for_each(|val| counts.entry(val).and_modify(|c| *c += 1).or_insert(1))`
count_langs(vec) ==
    IF vec = <<>> THEN EmptyMap
    ELSE LET c == count_langs(SubSeq(vec, 1, Len(vec) - 1))
             val == vec[Len(vec)]
         IN  IF val \in DOMAIN c
             THEN [c EXCEPT ![val] = @ + 1]
             ELSE c @@ (val :> 1)

\* `{:.0}` of unknown as f32 * 100.0 / total as f32: the quotient to the
\* nearest integer, a tie to the even one.  For the totals of this model the
\* f32 quotient rounds the same way as the exact one.
percent(unknown, total) ==
    LET q == (unknown * 100) \div total
        r == (unknown * 100) % total
    IN  IF 2 * r < total THEN q
        ELSE IF 2 * r > total THEN q + 1
        ELSE IF q % 2 = 0 THEN q ELSE q + 1

Init ==
    /\ dir \in SeqsUpTo(SampleFiles, MaxFiles)
    /\ idx = 1
    /\ langs = <<>>
    /\ out = <<>>
    /\ counts = EmptyMap
    /\ summary = <<>>
    /\ pc = "loop"
    /\ panic = "none"

\* a run over a directory that holds one file: any file with at most
\* MaxSymbols table entries drawn from the pools, the sections in either
\* order, intact or with one fault
InitInfer ==
    /\ \E first \in BOOLEAN, n \in TableSizes, fault \in Faults :
          \E imps \in [1..n[1] -> ImportPool], exps \in [1..n[2] -> ExportPool] :
              dir = <<MkFile(first, imps, exps, fault)>>
    /\ idx = 1
    /\ langs = <<>>
    /\ out = <<>>
    /\ counts = EmptyMap
    /\ summary = <<>>
    /\ pc = "loop"
    /\ panic = "none"

\* one iteration of `for path in paths`
ReadFile ==
    /\ pc = "loop"
    /\ idx <= Len(dir)
    /\ LET lang == infer_language(dir[idx]) IN
       IF lang = Panicked
       THEN /\ pc' = "panicked"
            /\ panic' = "Result::unwrap"
            /\ UNCHANGED <<idx, langs, out>>
       ELSE /\ out' = Append(out, [lang |-> lang, file |-> idx])
            /\ langs' = Append(langs, lang)
            /\ idx' = idx + 1
            /\ UNCHANGED <<pc, panic>>
    /\ UNCHANGED <<dir, counts, summary>>

\* the loop is over: build and print counts
Count ==
    /\ pc = "loop"
    /\ idx > Len(dir)
    /\ counts' = count_langs(langs)
    /\ pc' = "summary"
    /\ UNCHANGED <<dir, idx, langs, out, summary, panic>>

\* the last println!
Summarise ==
    /\ pc = "summary"
    /\ IF "Unknown" \in DOMAIN counts
       THEN /\ summary' = <<percent(counts["Unknown"], Len(langs))>>
            /\ pc' = "done"
            /\ UNCHANGED panic
       ELSE /\ pc' = "panicked"
            /\ panic' = "Option::unwrap"
            /\ UNCHANGED summary
    /\ UNCHANGED <<dir, idx, langs, out, counts>>

Next == ReadFile \/ Count \/ Summarise

Spec == Init /\ [][Next]_vars

SpecInfer == InitInfer /\ [][Next]_vars

(***************************************************************************)
(* What the properties below speak of: the symbol tables a file declares,  *)
(* whether it decodes without error, and what the run printed for it.      *)
(***************************************************************************)
RECURSIVE TableOf(_, _)
TableOf(buf, kind) ==
    IF buf = <<>> THEN <<>>
    ELSE (IF Head(buf).kind = kind THEN Head(buf).items ELSE <<>>)
         \o TableOf(Tail(buf), kind)

ImportSet(buf) ==
    {[module |-> i.module, name |-> i.name] : i \in Range(TableOf(buf, "ImportSection"))}

ExportSet(buf) == {e.name : e \in Range(TableOf(buf, "ExportSection"))}

WellFormed(buf) ==
    \A p \in Range(buf) : p.kind # "Err" /\ \A it \in Range(p.items) : it.ok

ModuleOf(buf) ==
    WasmModule(TableOf(buf, "ImportSection"), TableOf(buf, "ExportSection"))

Reported(k) == \E n \in DOMAIN out : out[n].file = k

LangOf(k) == out[CHOOSE n \in DOMAIN out : out[n].file = k].lang

\* main has returned or panicked
RunOver == pc \in {"done", "panicked"}

\* the loop over the files ended and the counts were built and printed
SummaryReached ==
    pc \in {"summary", "done"} \/ (pc = "panicked" /\ panic = "Option::unwrap")

AllWellFormed == \A k \in DOMAIN dir : WellFormed(dir[k])

RECURSIVE SumOver(_, _)
SumOver(f, S) ==
    IF S = {} THEN 0
    ELSE LET x == CHOOSE y \in S : TRUE IN f[x] + SumOver(f, S \ {x})

SumCounts == SumOver(counts, DOMAIN counts)

\* the rules of the chain as the specification words them, over the tables
EmscriptenStrong(buf) == \E i \in ImportSet(buf) : contains(i.name, "emscripten")

BlazorRule(buf) == \E i \in ImportSet(buf) : contains(i.name, "mono")

RustRule(buf) ==
    \/ \E i \in ImportSet(buf) :
          \/ contains(i.name, "wbindgen") \/ contains(i.name, "wbg")
          \/ i.module = "wbg" \/ i.module = "wbindgen"
    \/ \E e \in ExportSet(buf) : contains(e, "wbindgen")

\* the part of the Go rule that reads the imports
GoImportRule(buf) ==
    \E i \in ImportSet(buf) : i.module = "go" \/ contains(i.name, "go")

GoRule(buf) ==
    GoImportRule(buf) \/ \E e \in ExportSet(buf) : contains(e, "go_scheduler")

AssemblyScriptRule(buf) ==
    \/ [module |-> "env", name |-> "abort"] \in ImportSet(buf)
    \/ "hyphenate" \in ExportSet(buf)

EmscriptenLikely(buf) ==
    \/ /\ [module |-> "a", name |-> "a"] \in ImportSet(buf)
       /\ [module |-> "a", name |-> "b"] \in ImportSet(buf)
    \/ /\ [module |-> "env", name |-> "a"] \in ImportSet(buf)
       /\ [module |-> "env", name |-> "b"] \in ImportSet(buf)
    \/ "malloc" \in ExportSet(buf)
    \/ [module |-> "env", name |-> "__memory_base"] \in ImportSet(buf)

(***************************************************************************)
(* C1                                                                      *)
(***************************************************************************)
\* the chain of infer_language: rule r is the r-th predicate it calls
RuleHolds(r, module) ==
    CASE r = 1 -> is_emscripten(module)
      [] r = 2 -> is_blazor(module)
      [] r = 3 -> is_rust(module)
      [] r = 4 -> is_go(module)
      [] r = 5 -> is_assemblyscript(module)
      [] r = 6 -> is_likely_emscripten(module)
      [] OTHER -> TRUE

RuleCategory ==
    <<"Emscripten", "Blazor", "Rust", "Go", "AssemblyScript", "Emscripten", "Unknown">>

FirstRule(module) ==
    CHOOSE r \in 1..7 :
        RuleHolds(r, module) /\ \A q \in 1..(r - 1) : ~RuleHolds(q, module)

\* C1: every classified file gets the category of the earliest rule, in the
\* order Emscripten-strong, Blazor, Rust, Go, AssemblyScript, Emscripten-likely,
\* Unknown, that holds of its tables, whatever later rules hold too; a file
\* with an import name containing "emscripten" and an import of namespace
\* "wbg" is Emscripten.
C1_FirstMatchWins ==
    \A k \in DOMAIN dir :
        Reported(k) =>
            /\ LangOf(k) = RuleCategory[FirstRule(ModuleOf(dir[k]))]
            /\ (EmscriptenStrong(dir[k]) /\ \E i \in ImportSet(dir[k]) : i.module = "wbg")
                   => LangOf(k) = "Emscripten"

C1_Witness ==
    /\ Reported(1)
    /\ EmscriptenStrong(dir[1])
    /\ \E i \in ImportSet(dir[1]) : i.module = "wbg"
    /\ LangOf(1) = "Emscripten"

(***************************************************************************)
(* C2                                                                      *)
(***************************************************************************)
\* the loop has dealt with file k: it went past it or panicked on it
Reached(k) == idx > k \/ (idx = k /\ pc = "panicked")

\* C2: a file that decodes without error is classified without a panic, with
\* exactly one category; one with no import and no export is Unknown.
C2_Total ==
    \A k \in DOMAIN dir :
        (Reached(k) /\ WellFormed(dir[k])) =>
            /\ idx > k
            /\ Cardinality({n \in DOMAIN out : out[n].file = k}) = 1
            /\ LangOf(k) \in Language
            /\ (ImportSet(dir[k]) = {} /\ ExportSet(dir[k]) = {}) => LangOf(k) = "Unknown"

C2_Witness ==
    /\ Reported(1)
    /\ WellFormed(dir[1])
    /\ ImportSet(dir[1]) = {} /\ ExportSet(dir[1]) = {}
    /\ LangOf(1) = "Unknown"

(***************************************************************************)
(* C3                                                                      *)
(***************************************************************************)
\* C3: a file that fails to parse does not abort the run: when the run is
\* over every file that decodes has been classified and reported, and the
\* summary step was reached.
C3_ParseIsolation ==
    RunOver =>
        /\ \A k \in DOMAIN dir : WellFormed(dir[k]) => Reported(k)
        /\ SummaryReached

(***************************************************************************)
(* C4                                                                      *)
(***************************************************************************)
\* C4: a run that reaches the summary with no parsed module (an empty
\* directory) skips the percentage and ends without a fault.
C4_PercentageGuard ==
    (RunOver /\ SummaryReached /\ Len(langs) = 0) =>
        (pc = "done" /\ summary = <<>>)

(***************************************************************************)
(* C5                                                                      *)
(***************************************************************************)
\* C5: when every file of the run parses, the counts the aggregator built sum
\* to the number of files, each file counted once under its category.
C5_CountsSum ==
    (SummaryReached /\ AllWellFormed) =>
        /\ SumCounts = Len(dir)
        /\ \A l \in Language :
              Cardinality({k \in DOMAIN dir : LangOf(k) = l})
                 = (IF l \in DOMAIN counts THEN counts[l] ELSE 0)

C5_Witness ==
    /\ pc = "done"
    /\ AllWellFormed
    /\ Len(dir) = MaxFiles
    /\ \E l \in DOMAIN counts : counts[l] >= 2
    /\ Cardinality(DOMAIN counts) >= 2

(***************************************************************************)
(* C6                                                                      *)
(***************************************************************************)
UnknownFiles == {k \in DOMAIN dir : Reported(k) /\ LangOf(k) = "Unknown"}

\* p is count * 100 / total to the nearest integer
Nearest(p, count, total) ==
    LET d == p * total - count * 100 IN
    2 * (IF d < 0 THEN -d ELSE d) <= total

\* C6: a run over at least one file, all of which parse, completes and
\* reports count(Unknown) * 100 / total to the nearest integer, 0 when no
\* file is Unknown.
C6_RunSummary ==
    (RunOver /\ Len(dir) >= 1 /\ AllWellFormed) =>
        /\ pc = "done"
        /\ Len(summary) = 1
        /\ Nearest(summary[1], Cardinality(UnknownFiles), Len(dir))

(***************************************************************************)
(* C7                                                                      *)
(***************************************************************************)
\* C7: a classified file that matches none of Emscripten-strong, Blazor and
\* Rust is Go iff an import has namespace "go", or an import name contains
\* "go", or an export name contains "go_scheduler".
C7_GoRule ==
    \A k \in DOMAIN dir :
        (Reported(k) /\ ~EmscriptenStrong(dir[k]) /\ ~BlazorRule(dir[k])
            /\ ~RustRule(dir[k]))
        => (LangOf(k) = "Go" <=> GoRule(dir[k]))

(***************************************************************************)
(* C8                                                                      *)
(***************************************************************************)
\* none of rules 1-5; rule 4 by its imports, which is all infer_language's
\* fourth test reads, so that every file the five worded rules let through
\* is covered
NoneOfRules1to5(buf) ==
    /\ ~EmscriptenStrong(buf) /\ ~BlazorRule(buf) /\ ~RustRule(buf)
    /\ ~GoImportRule(buf) /\ ~AssemblyScriptRule(buf)

\* C8: a classified file that matches none of rules 1-5 is Emscripten iff it
\* imports both ("a","a") and ("a","b"), or both ("env","a") and ("env","b"),
\* or exports "malloc", or imports ("env","__memory_base"); otherwise it is
\* Unknown.
C8_EmscriptenLikely ==
    \A k \in DOMAIN dir :
        (Reported(k) /\ NoneOfRules1to5(dir[k])) =>
            /\ LangOf(k) = "Emscripten" <=> EmscriptenLikely(dir[k])
            /\ ~EmscriptenLikely(dir[k]) => LangOf(k) = "Unknown"

C8_Witness ==
    /\ Reported(1)
    /\ ImportSet(dir[1]) = {[module |-> "a", name |-> "a"], [module |-> "a", name |-> "b"]}
    /\ ExportSet(dir[1]) = {}
    /\ Len(TableOf(dir[1], "ImportSection")) = 2
    /\ LangOf(1) = "Emscripten"

(***************************************************************************)
(* C9                                                                      *)
(***************************************************************************)
\* the sequences of at most n entries that hold exactly the entries of S
Covering(S, n) == {s \in SeqsUpTo(S, n) : Range(s) = S}

\* the import tables, and the export tables, that hold the same set of entries
\* as those of buf, in any order and with repeated entries
SameImports(buf) == Covering(Range(TableOf(buf, "ImportSection")), MaxSymbols + 1)

SameExports(buf) == Covering(Range(TableOf(buf, "ExportSection")), MaxSymbols + 1)

\* C9: the category of a classified file is that of every file with the same
\* set of imports and the same set of exports, whatever the order of the
\* entries, their repetition and the order of the two sections.
C9_SetMembershipOnly ==
    \A k \in DOMAIN dir :
        Reported(k) =>
            \A first \in BOOLEAN, imps \in SameImports(dir[k]), exps \in SameExports(dir[k]) :
                infer_language(MkFile(first, imps, exps, "none")) = LangOf(k)

C9_Witness ==
    /\ Reported(1)
    /\ TableOf(dir[1], "ImportSection") = <<ImportItem("a", "b"), ImportItem("a", "a")>>
    /\ <<ImportItem("a", "a"), ImportItem("a", "b"), ImportItem("a", "a")>>
           \in SameImports(dir[1])
    /\ LangOf(1) = "Emscripten"

(***************************************************************************)
(* C10                                                                     *)
(***************************************************************************)
\* C10: a file that fails to parse gets no category: no line is printed for
\* it, langs holds one entry per reported file and nothing else, and the
\* counts, once built, count the reported files only.
C10_FailedNotCounted ==
    /\ \A k \in DOMAIN dir : ~WellFormed(dir[k]) => ~Reported(k)
    /\ Len(langs) = Cardinality({k \in DOMAIN dir : Reported(k)})
    /\ \A n \in DOMAIN out : langs[n] = out[n].lang
    /\ SummaryReached => SumCounts = Len(langs)

C10_Witness ==
    /\ pc = "panicked"
    /\ panic = "Result::unwrap"
    /\ idx = 2
    /\ TableOf(dir[2], "ImportSection") = <<ImportItem("a", "a"), BadImportItem>>
    /\ Len(langs) = 1
    /\ ~Reported(2)

====
